---- MODULE Spec2Model ----
(***************************************************************************)
(* A model of bakins/twirp-todo-example:                                   *)
(*   - the prepared-statement cache   internal/todo/stmtcache.go  (1-76)   *)
(*   - the HTTP server lifecycle      package httpserver          (600-778)*)
(*   - the todo service               internal/todo/todo.go                *)
(* Each component has its own next-state relation over the shared state;   *)
(* a component's actions leave the other component's variables unchanged.  *)
(***************************************************************************)
EXTENDS Integers, Sequences, FiniteSets, TLC

(***************************************************************************)
(* Bounds of the model.                                                    *)
(***************************************************************************)
NumCallers == 2      \* goroutines calling QueryContext / ExecContext
NumKeys    == 2      \* distinct query strings
MaxCalls   == 3      \* calls of QueryContext / ExecContext made in all
MaxCloses  == 2      \* calls of Close
NumMws     == 2      \* distinct middlewares a caller may register
MaxAdded   == 2      \* AddMiddleware calls made after New
NumReqs    == 2      \* requests sent through the composed handler
NumPorts   == 2      \* ports the system may give to a listener on port 0
NumConns   == 2      \* connections the serve loop accepts
MaxOpts    == 2      \* options passed to one call of New
MaxSetupCalls == 2   \* Handle / RegisterService calls made on one server
MaxTasks   == 3      \* CreateTask calls that insert a row

Callers == 1..NumCallers
Closer  == 0                         \* the goroutine that calls Server.Close
Threads == Callers \cup {Closer}
Keys    == 1..NumKeys
StmtIds == 1..MaxCalls                \* identities of the *sql.Stmt values created
NilStmt == 0                         \* the nil *sql.Stmt
NoOne   == -1                        \* nobody holds the exclusive lock

VARIABLES
    \* ---- stmtCache ----
    statements,   \* c.statements: a map from query to statement (a partial function)
    lockW,        \* c.lock: the goroutine holding it exclusively, or NoOne
    lockR,        \* c.lock: the goroutines holding it shared
    pc,           \* where each goroutine stands
    query,        \* the query argument of each goroutine's current call
    ret,          \* what PrepareContext last returned to each goroutine
    calls,        \* calls made so far
    \* ---- the preparer and the statements (external collaborators) ----
    nextStmt,     \* number of statements the preparer has created
    closeCount,   \* how many times stmt.Close() ran on each statement
    \* ---- history of the cache, for stating the properties ----
    prepOk,       \* successful preparer invocations per key
    prepFail,     \* failed preparer invocations per key
    closeCalls,   \* calls of Close started
    closedInCall, \* statements closed by the current (or last) call of Close
    storedSince,  \* entries stored since the last call of Close returned
    atLock,       \* the statements cached when the current (or last) Close took the lock
    \* ---- httpserver.Server: the middleware chain ----
    chain,        \* s.chain: the alice.Chain's constructors, in order
    registered,   \* history: the middlewares in the order AddMiddleware received them
    handler,      \* svr.Handler: the middlewares a request meets, outermost first
    built,        \* Run has composed the handler
    reqPos,       \* per request: how many middlewares it is inside of
    reqDir,       \* per request: "none", "in" (going to the mux), "out", "done"
    reqTrace,     \* per request: the pre/post-processing events, in order
    \* ---- httpserver.Server: Run and WaitForAddress ----
    slot,         \* s.listener (atomic.Value): NoListener or the listener's port
    lstate,       \* the net.Listener: "none", "open", "closed"
    runPc,        \* Run: "new", "wait" (in eg.Wait), "returned"
    runResult,    \* what Run returned
    ctxDone,      \* the context passed to Run is cancelled
    egCancelled,  \* the errgroup has cancelled its derived context
    egErr,        \* the errgroup's first non-nil task error
    servePc,      \* serve task: "idle", "spawned", "accepting", "done"
    serveErr,     \* what svr.Serve returned
    watchPc,      \* watcher task: "idle", "waiting", "shutdown", "done"
    watchRet,     \* what the watcher task returned
    shutdownErr,  \* what svr.Shutdown returned
    inShutdown,   \* http.Server: Shutdown has been called
    elapsed,      \* seconds since Shutdown was called
    conns,        \* per connection: "none", "active" (request in flight), "done"
    wPc,          \* WaitForAddress: "idle", "polling", "returned"
    wCtxDone,     \* the context passed to WaitForAddress is cancelled
    wRet,         \* what WaitForAddress returned
    ticksAfterPub, \* history: ticks WaitForAddress handled with the listener published
    tickReady,    \* the ticker's channel t.C holds a tick
    wLateCall,    \* history: WaitForAddress was called with its context already cancelled
    \* ---- httpserver: New, Handle, RegisterService ----
    newCalled,    \* New has been called
    newOpts,      \* history: the options New was called with
    newRet,       \* what New returned: is there a server, and the error
    cfg,          \* New's serverConfig (s.config of the server, when New returns one)
    failedAt,     \* history: the position of the option whose apply failed, or 0
    routes,       \* s.mux: pattern -> handler
    reflKnown,    \* s.reflection: the services it has been told of
    muxPanic,     \* s.mux.Handle panicked on a pattern already registered
    setupCalls,   \* history: the Handle / RegisterService calls made, in order
    listenCalls,  \* history: the arguments of the calls of net.Listen
    \* ---- todo.Server and its tasks table ----
    tasks,        \* the rows of table tasks
    created,      \* history: request and response of each successful CreateTask
    createRet,    \* what CreateTask last returned
    listRet,      \* what ListTasks last returned, and after how many creations
    getRet        \* what GetTask last returned, for which id, after how many creations

cacheVars == <<statements, lockW, lockR, pc, query, ret, calls, nextStmt, closeCount,
               prepOk, prepFail, closeCalls, closedInCall, storedSince, atLock>>

chainVars == <<chain, registered, handler, built, reqPos, reqDir, reqTrace>>

runVars == <<slot, lstate, runPc, runResult, ctxDone, egCancelled, egErr, servePc,
             serveErr, watchPc, watchRet, shutdownErr, inShutdown, elapsed, conns,
             wPc, wCtxDone, wRet, ticksAfterPub, tickReady, wLateCall>>

setupVars == <<newCalled, newOpts, newRet, cfg, failedAt, routes, reflKnown, muxPanic,
               setupCalls, listenCalls>>

todoVars == <<tasks, created, createRet, listRet, getRet>>

vars == <<cacheVars, chainVars, runVars, setupVars, todoVars>>

\* what the actions of one component leave alone
notCache == <<chainVars, runVars, setupVars, todoVars>>
notChain == <<cacheVars, runVars, setupVars, todoVars>>
notRun   == <<cacheVars, chainVars, setupVars, todoVars>>
notSetup == <<cacheVars, chainVars, runVars, todoVars>>
notTodo  == <<cacheVars, chainVars, runVars, setupVars>>

NoRet == [stmt |-> NilStmt, err |-> "none"]

EmptyMap == [k \in {} |-> NilStmt]

\* delete(c.statements, key)
MapDelete(m, k) == [x \in (DOMAIN m) \ {k} |-> m[x]]

\* c.statements[query] = stmt
MapStore(m, k, s) == [x \in (DOMAIN m) \cup {k} |-> IF x = k THEN s ELSE m[x]]

\* the statements held by the map
MapValues(m) == {m[k] : k \in DOMAIN m}

\* newStmtCache
CacheInit ==
    /\ statements = EmptyMap
    /\ lockW = NoOne
    /\ lockR = {}
    /\ pc = [t \in Threads |-> "idle"]
    /\ query = [t \in Callers |-> 1]
    /\ ret = [t \in Callers |-> NoRet]
    /\ calls = 0
    /\ nextStmt = 0
    /\ closeCount = [s \in StmtIds |-> 0]
    /\ prepOk = [k \in Keys |-> 0]
    /\ prepFail = [k \in Keys |-> 0]
    /\ closeCalls = 0
    /\ closedInCall = 0
    /\ storedSince = 0
    /\ atLock = {}

\* sync.RWMutex: RLock succeeds when nobody holds the lock exclusively
CanRLock == lockW = NoOne

\* a lock whose Lock waits for the readers only
CanLock_IgnoresWriter == lockR = {}

\* sync.RWMutex: Lock succeeds when nobody holds the lock at all
CanLock == lockW = NoOne /\ lockR = {}

histUnchanged == UNCHANGED <<prepOk, prepFail, closeCalls, closedInCall, storedSince, atLock>>

\* QueryContext / ExecContext enter PrepareContext: c.lock.RLock()
PrepRLock(t, k) ==
    /\ pc[t] = "idle"
    /\ calls < MaxCalls
    /\ CanRLock
    /\ lockR' = lockR \cup {t}
    /\ pc' = [pc EXCEPT ![t] = "rlocked"]
    /\ query' = [query EXCEPT ![t] = k]
    /\ calls' = calls + 1
    /\ ret' = [ret EXCEPT ![t] = NoRet]
    /\ UNCHANGED <<statements, lockW, nextStmt, closeCount>>
    /\ histUnchanged
    /\ UNCHANGED notCache

\* stmt, ok := c.statements[query]; c.lock.RUnlock(); if ok { return stmt, nil }
PrepLookup(t) ==
    /\ pc[t] = "rlocked"
    /\ lockR' = lockR \ {t}
    /\ IF query[t] \in DOMAIN statements
          THEN /\ ret' = [ret EXCEPT ![t] = [stmt |-> statements[query[t]], err |-> "nil"]]
               /\ pc' = [pc EXCEPT ![t] = "use"]
          ELSE /\ ret' = ret
               /\ pc' = [pc EXCEPT ![t] = "wantLock"]
    /\ UNCHANGED <<statements, lockW, query, calls, nextStmt, closeCount>>
    /\ histUnchanged
    /\ UNCHANGED notCache

\* c.lock.Lock()
PrepLock(t) ==
    /\ pc[t] = "wantLock"
    /\ CanLock
    /\ lockW' = t
    /\ pc' = [pc EXCEPT ![t] = "prepare"]
    /\ UNCHANGED <<statements, lockR, query, ret, calls, nextStmt, closeCount>>
    /\ histUnchanged
    /\ UNCHANGED notCache

\* a store that does not look at err
StoreAlways(m, k, s, err) == MapStore(m, k, s)

\* if err == nil { c.statements[query] = stmt }
StoreIfNoError(m, k, s, err) == IF err = "nil" THEN MapStore(m, k, s) ELSE m

\* stmt, err := c.preparer.PrepareContext(ctx, query); store; return stmt, err
\* (the deferred c.lock.Unlock() runs on return). The preparer either creates
\* a new statement or fails.
PrepCreate(t) ==
    /\ pc[t] = "prepare"
    /\ \E ok \in BOOLEAN :
         LET err == IF ok THEN "nil" ELSE "err"
             s   == IF ok THEN nextStmt + 1 ELSE NilStmt
             k   == query[t]
         IN  /\ nextStmt' = IF ok THEN nextStmt + 1 ELSE nextStmt
             /\ statements' = StoreIfNoError(statements, k, s, err)
             /\ ret' = [ret EXCEPT ![t] = [stmt |-> s, err |-> err]]
             /\ pc' = [pc EXCEPT ![t] = IF ok THEN "use" ELSE "idle"]
             /\ prepOk' = [prepOk EXCEPT ![k] = IF ok THEN @ + 1 ELSE @]
             /\ prepFail' = [prepFail EXCEPT ![k] = IF ok THEN @ ELSE @ + 1]
             /\ storedSince' = IF statements' # statements THEN storedSince + 1
                                                            ELSE storedSince
    /\ lockW' = NoOne
    /\ UNCHANGED <<lockR, query, calls, closeCount, closeCalls, closedInCall, atLock>>
    /\ UNCHANGED notCache

\* return stmt.QueryContext(ctx, args...) / stmt.ExecContext(ctx, args...)
StmtUse(t) ==
    /\ pc[t] = "use"
    /\ pc' = [pc EXCEPT ![t] = "idle"]
    /\ ret' = [ret EXCEPT ![t] = NoRet]
    /\ UNCHANGED <<statements, lockW, lockR, query, calls, nextStmt, closeCount>>
    /\ histUnchanged
    /\ UNCHANGED notCache

\* Server.Close -> stmtCache.Close: c.lock.Lock()
CloseLock ==
    /\ pc[Closer] = "idle"
    /\ closeCalls < MaxCloses
    /\ CanLock
    /\ lockW' = Closer
    /\ pc' = [pc EXCEPT ![Closer] = "closing"]
    /\ closeCalls' = closeCalls + 1
    /\ closedInCall' = 0
    /\ atLock' = MapValues(statements)
    /\ UNCHANGED <<statements, lockR, query, ret, calls, nextStmt, closeCount,
                   prepOk, prepFail, storedSince>>
    /\ UNCHANGED notCache

\* one iteration of: for key, stmt := range c.statements { delete; if nil continue; Close }
CloseEntry_NoDelete(m, k) == m

CloseEntry(m, k) == MapDelete(m, k)

CloseIter ==
    /\ pc[Closer] = "closing"
    /\ \E k \in DOMAIN statements :
         LET s == statements[k]
         IN  /\ statements' = CloseEntry(statements, k)
             /\ IF s = NilStmt
                   THEN UNCHANGED <<closeCount, closedInCall>>
                   ELSE /\ closeCount' = [closeCount EXCEPT ![s] = @ + 1]
                        /\ closedInCall' = closedInCall + 1
    /\ UNCHANGED <<lockW, lockR, pc, query, ret, calls, nextStmt,
                   prepOk, prepFail, closeCalls, storedSince, atLock>>
    /\ UNCHANGED notCache

\* the range loop is over: the deferred c.lock.Unlock() runs and Close returns
CloseUnlock ==
    /\ pc[Closer] = "closing"
    /\ DOMAIN statements = {}
    /\ lockW' = NoOne
    /\ pc' = [pc EXCEPT ![Closer] = "idle"]
    /\ storedSince' = 0
    /\ UNCHANGED <<statements, lockR, query, ret, calls, nextStmt, closeCount,
                   prepOk, prepFail, closeCalls, closedInCall, atLock>>
    /\ UNCHANGED notCache


(***************************************************************************)
(* httpserver.Server: the middleware chain (New, AddMiddleware, Run).      *)
(***************************************************************************)
H2C     == <<"h2c", 0>>                       \* h2c.NewHandler(next, &http2.Server{})
Gzip    == <<"gzip", 0>>                      \* gziphandler.GzipHandler
UserMws == {<<"user", i>> : i \in 1..NumMws}  \* what callers pass to AddMiddleware
Reqs    == 1..NumReqs

\* s.mux seen as a handler: no middleware around it
MuxHandler == << >>

\* alice.Chain.Append: a new chain with the constructor added at the end
ChainAppend(c, m) == Append(c, m)

\* a middleware constructor applied to a handler: the handler that runs m around h
Wrap(m, h) == <<m>> \o h

\* a Then that wraps in registration order, so that the last one added is outermost
RECURSIVE ThenForward(_, _, _)
ThenForward(c, i, h) ==
    IF i = Len(c) THEN h ELSE ThenForward(c, i + 1, Wrap(c[i + 1], h))

ChainThen_LastOutermost(c, h) == ThenForward(c, 0, h)

\* alice.Chain.Then: for i := range c.constructors { h = c.constructors[len-1-i](h) }
RECURSIVE ThenLoop(_, _, _)
ThenLoop(c, i, h) ==
    IF i = Len(c) THEN h ELSE ThenLoop(c, i + 1, Wrap(c[Len(c) - i], h))

ChainThen(c, h) == ThenLoop(c, 0, h)

\* New: the zero Chain, then s.AddMiddleware(h2c), s.AddMiddleware(gzip)
ChainInit ==
    /\ chain = ChainAppend(ChainAppend(<< >>, H2C), Gzip)
    /\ registered = <<H2C, Gzip>>
    /\ handler = << >>
    /\ built = FALSE
    /\ reqPos = [r \in Reqs |-> 0]
    /\ reqDir = [r \in Reqs |-> "none"]
    /\ reqTrace = [r \in Reqs |-> << >>]

InSeq(q, e) == \E i \in 1..Len(q) : q[i] = e

\* Server.AddMiddleware, at setup time: s.chain = s.chain.Append(middleware)
AddMiddleware(m) ==
    /\ ~ built
    /\ Len(registered) < MaxAdded + 2
    /\ ~ InSeq(registered, m)
    /\ chain' = ChainAppend(chain, m)
    /\ registered' = Append(registered, m)
    /\ UNCHANGED <<handler, built, reqPos, reqDir, reqTrace>>
    /\ UNCHANGED notChain

\* Server.Run: svr := &http.Server{Handler: s.chain.Then(s.mux)}
RunCompose ==
    /\ ~ built
    /\ handler' = ChainThen(chain, MuxHandler)
    /\ built' = TRUE
    /\ UNCHANGED <<chain, registered, reqPos, reqDir, reqTrace>>
    /\ UNCHANGED notChain

\* the server hands an inbound request to svr.Handler
ReqArrive(r) ==
    /\ built
    /\ reqDir[r] = "none"
    /\ reqDir' = [reqDir EXCEPT ![r] = "in"]
    /\ UNCHANGED <<chain, registered, handler, built, reqPos, reqTrace>>
    /\ UNCHANGED notChain

\* the next middleware's ServeHTTP starts: its pre-processing, then it calls next
ReqPre(r) ==
    /\ reqDir[r] = "in"
    /\ reqPos[r] < Len(handler)
    /\ reqTrace' = [reqTrace EXCEPT ![r] = Append(@, <<"pre", handler[reqPos[r] + 1]>>)]
    /\ reqPos' = [reqPos EXCEPT ![r] = @ + 1]
    /\ UNCHANGED <<chain, registered, handler, built, reqDir>>
    /\ UNCHANGED notChain

\* the innermost handler, s.mux, serves the request and returns
ReqMux(r) ==
    /\ reqDir[r] = "in"
    /\ reqPos[r] = Len(handler)
    /\ reqTrace' = [reqTrace EXCEPT ![r] = Append(@, <<"mux", <<"mux", 0>>>>)]
    /\ reqDir' = [reqDir EXCEPT ![r] = IF reqPos[r] = 0 THEN "done" ELSE "out"]
    /\ UNCHANGED <<chain, registered, handler, built, reqPos>>
    /\ UNCHANGED notChain

\* next.ServeHTTP has returned to a middleware: its post-processing, then it returns
ReqPost(r) ==
    /\ reqDir[r] = "out"
    /\ reqPos[r] > 0
    /\ reqTrace' = [reqTrace EXCEPT ![r] = Append(@, <<"post", handler[reqPos[r]]>>)]
    /\ reqPos' = [reqPos EXCEPT ![r] = @ - 1]
    /\ reqDir' = [reqDir EXCEPT ![r] = IF reqPos[r] = 1 THEN "done" ELSE "out"]
    /\ UNCHANGED <<chain, registered, handler, built>>
    /\ UNCHANGED notChain

NextChain ==
    \/ \E m \in UserMws : AddMiddleware(m)
    \/ RunCompose
    \/ \E r \in Reqs : ReqArrive(r)
    \/ \E r \in Reqs : ReqPre(r)
    \/ \E r \in Reqs : ReqMux(r)
    \/ \E r \in Reqs : ReqPost(r)


(***************************************************************************)
(* httpserver.Server: Run (listener, serve task, shutdown watcher under an *)
(* errgroup) and WaitForAddress.                                           *)
(***************************************************************************)
GracePeriod == 10                 \* time.Second*10
NoListener  == 0                  \* the empty atomic.Value (Load returns nil)
Ports       == 1..NumPorts
Conns       == 1..NumConns
NoAddr      == [addr |-> NoListener, err |-> "none"]

\* New with no option: nothing bound, Run and WaitForAddress not called
RunInit ==
    /\ slot = NoListener
    /\ lstate = "none"
    /\ runPc = "new"
    /\ runResult = "none"
    /\ ctxDone = FALSE
    /\ egCancelled = FALSE
    /\ egErr = "nil"
    /\ servePc = "idle"
    /\ serveErr = "none"
    /\ watchPc = "idle"
    /\ watchRet = "none"
    /\ shutdownErr = "none"
    /\ inShutdown = FALSE
    /\ elapsed = 0
    /\ conns = [c \in Conns |-> "none"]
    /\ wPc = "idle"
    /\ wCtxDone = FALSE
    /\ wRet = NoAddr
    /\ ticksAfterPub = 0
    /\ tickReady = FALSE
    /\ wLateCall = FALSE

\* the context errgroup.WithContext derives: done when the parent is done or
\* the group has cancelled it
GroupCtxDone == ctxDone \/ egCancelled

\* errgroup.Group.Go: the first non-nil error a task returns is kept
EgFirstErr(have, res) == IF have = "nil" /\ res # "nil" THEN res ELSE have

\* errgroup.Group.Go: a task returning a non-nil error cancels the context
EgCancels(res) == res # "nil"

\* a serve task that reports no error at all
ServeTaskResult_Swallow(err) == "nil"

\* a serve task that reports whatever Serve returned
ServeTaskResult_Raw(err) == err

\* if err := svr.Serve(listener); err != nil { if err != http.ErrServerClosed
\* { return err } }; return nil
ServeTaskResult(err) == IF err # "nil" /\ err # "ErrServerClosed" THEN err ELSE "nil"

\* _ = svr.Shutdown(shutdownCtx); return nil
WatcherResult(err) == "nil"

\* the external cancellation signal fires
CtxCancel ==
    /\ ~ ctxDone
    /\ ctxDone' = TRUE
    /\ UNCHANGED <<slot, lstate, runPc, runResult, egCancelled, egErr, servePc, serveErr,
                   watchPc, watchRet, shutdownErr, inShutdown, elapsed, conns,
                   wPc, wCtxDone, wRet, ticksAfterPub, tickReady, wLateCall>>
    /\ UNCHANGED notRun

\* Run: net.Listen fails; Run returns the wrapped error
RunListenFail ==
    /\ runPc = "new"
    /\ runPc' = "returned"
    /\ runResult' = "listenErr"
    /\ UNCHANGED <<slot, lstate, ctxDone, egCancelled, egErr, servePc, serveErr,
                   watchPc, watchRet, shutdownErr, inShutdown, elapsed, conns,
                   wPc, wCtxDone, wRet, ticksAfterPub, tickReady, wLateCall>>
    /\ UNCHANGED notRun

\* Run: net.Listen succeeds on port p; s.listener.Store(listener); the two
\* tasks are started with eg.Go and Run blocks in eg.Wait
RunListen(p) ==
    /\ runPc = "new"
    /\ slot' = p
    /\ lstate' = "open"
    /\ servePc' = "spawned"
    /\ watchPc' = "waiting"
    /\ runPc' = "wait"
    /\ UNCHANGED <<runResult, ctxDone, egCancelled, egErr, serveErr, watchRet,
                   shutdownErr, inShutdown, elapsed, conns, wPc, wCtxDone, wRet,
                   ticksAfterPub, tickReady, wLateCall>>
    /\ UNCHANGED notRun

\* the serve task ends: svr.Serve returned err (its deferred l.Close() has
\* closed the listener), the task maps it and the errgroup records the result
ServeEnds(err) ==
    LET res == ServeTaskResult(err)
    IN  /\ serveErr' = err
        /\ servePc' = "done"
        /\ lstate' = "closed"
        /\ egErr' = EgFirstErr(egErr, res)
        /\ egCancelled' = (egCancelled \/ EgCancels(res))

\* the serve task runs svr.Serve(listener): a server already shut down
\* returns ErrServerClosed at once, otherwise the accept loop starts
ServeStart ==
    /\ servePc = "spawned"
    /\ IF inShutdown
          THEN ServeEnds("ErrServerClosed")
          ELSE /\ servePc' = "accepting"
               /\ UNCHANGED <<serveErr, lstate, egErr, egCancelled>>
    /\ UNCHANGED <<slot, runPc, runResult, ctxDone, watchPc, watchRet, shutdownErr,
                   inShutdown, elapsed, conns, wPc, wCtxDone, wRet, ticksAfterPub, tickReady, wLateCall>>
    /\ UNCHANGED notRun

\* the accept loop accepts a connection and a request starts on it
ServeAccept(c) ==
    /\ servePc = "accepting"
    /\ lstate = "open"
    /\ conns[c] = "none"
    /\ conns' = [conns EXCEPT ![c] = "active"]
    /\ UNCHANGED <<slot, lstate, runPc, runResult, ctxDone, egCancelled, egErr, servePc,
                   serveErr, watchPc, watchRet, shutdownErr, inShutdown, elapsed,
                   wPc, wCtxDone, wRet, ticksAfterPub, tickReady, wLateCall>>
    /\ UNCHANGED notRun

\* l.Accept fails while the server is not shutting down: Serve returns the error
ServeAcceptError ==
    /\ servePc = "accepting"
    /\ ~ inShutdown
    /\ ServeEnds("other")
    /\ UNCHANGED <<slot, runPc, runResult, ctxDone, watchPc, watchRet, shutdownErr,
                   inShutdown, elapsed, conns, wPc, wCtxDone, wRet, ticksAfterPub, tickReady, wLateCall>>
    /\ UNCHANGED notRun

\* l.Accept fails because Shutdown closed the listener: Serve returns ErrServerClosed
ServeClosed ==
    /\ servePc = "accepting"
    /\ inShutdown
    /\ ServeEnds("ErrServerClosed")
    /\ UNCHANGED <<slot, runPc, runResult, ctxDone, watchPc, watchRet, shutdownErr,
                   inShutdown, elapsed, conns, wPc, wCtxDone, wRet, ticksAfterPub, tickReady, wLateCall>>
    /\ UNCHANGED notRun

\* a request in flight completes: its handler returns and the response is written
ConnFinish(c) ==
    /\ conns[c] = "active"
    /\ conns' = [conns EXCEPT ![c] = "done"]
    /\ UNCHANGED <<slot, lstate, runPc, runResult, ctxDone, egCancelled, egErr, servePc,
                   serveErr, watchPc, watchRet, shutdownErr, inShutdown, elapsed,
                   wPc, wCtxDone, wRet, ticksAfterPub, tickReady, wLateCall>>
    /\ UNCHANGED notRun

\* the watcher task: <-ctx.Done() returns and svr.Shutdown(shutdownCtx) begins:
\* the server is marked as shutting down and the listeners Serve has
\* registered are closed; connections with a request in flight are left alone
WatchWake ==
    /\ watchPc = "waiting"
    /\ GroupCtxDone
    /\ watchPc' = "shutdown"
    /\ inShutdown' = TRUE
    /\ elapsed' = 0
    /\ lstate' = IF servePc = "accepting" THEN "closed" ELSE lstate
    /\ UNCHANGED <<slot, runPc, runResult, ctxDone, egCancelled, egErr, servePc, serveErr,
                   watchRet, shutdownErr, conns, wPc, wCtxDone, wRet, ticksAfterPub, tickReady, wLateCall>>
    /\ UNCHANGED notRun

\* a second of the grace period passes
GraceTick ==
    /\ watchPc = "shutdown"
    /\ elapsed < GracePeriod
    /\ elapsed' = elapsed + 1
    /\ UNCHANGED <<slot, lstate, runPc, runResult, ctxDone, egCancelled, egErr, servePc,
                   serveErr, watchPc, watchRet, shutdownErr, inShutdown, conns,
                   wPc, wCtxDone, wRet, ticksAfterPub, tickReady, wLateCall>>
    /\ UNCHANGED notRun

\* the watcher task ends: Shutdown returned err, the task returns its result
WatcherEnds(err) ==
    LET res == WatcherResult(err)
    IN  /\ shutdownErr' = err
        /\ watchRet' = res
        /\ watchPc' = "done"
        /\ egErr' = EgFirstErr(egErr, res)
        /\ egCancelled' = (egCancelled \/ EgCancels(res))

\* Shutdown finds no connection with a request in flight and returns nil
ShutdownDone ==
    /\ watchPc = "shutdown"
    /\ \A c \in Conns : conns[c] # "active"
    /\ WatcherEnds("nil")
    /\ UNCHANGED <<slot, lstate, runPc, runResult, ctxDone, servePc, serveErr,
                   inShutdown, elapsed, conns, wPc, wCtxDone, wRet, ticksAfterPub, tickReady, wLateCall>>
    /\ UNCHANGED notRun

\* shutdownCtx expires after the grace period: Shutdown returns the context's
\* error and leaves the connections as they are
ShutdownTimeout ==
    /\ watchPc = "shutdown"
    /\ elapsed = GracePeriod
    /\ WatcherEnds("deadline")
    /\ UNCHANGED <<slot, lstate, runPc, runResult, ctxDone, servePc, serveErr,
                   inShutdown, elapsed, conns, wPc, wCtxDone, wRet, ticksAfterPub, tickReady, wLateCall>>
    /\ UNCHANGED notRun

\* eg.Wait: both tasks have returned; Wait cancels the derived context and
\* Run returns the group's first error
RunReturn ==
    /\ runPc = "wait"
    /\ servePc = "done"
    /\ watchPc = "done"
    /\ runPc' = "returned"
    /\ runResult' = egErr
    /\ egCancelled' = TRUE
    /\ UNCHANGED <<slot, lstate, ctxDone, egErr, servePc, serveErr, watchPc, watchRet,
                   shutdownErr, inShutdown, elapsed, conns, wPc, wCtxDone, wRet,
                   ticksAfterPub, tickReady, wLateCall>>
    /\ UNCHANGED notRun

\* WaitForAddress is called: the ticker is created (its first tick is a period
\* away) and the loop entered
WaitCall ==
    /\ wPc = "idle"
    /\ wPc' = "polling"
    /\ tickReady' = FALSE
    /\ wLateCall' = wCtxDone
    /\ UNCHANGED <<slot, lstate, runPc, runResult, ctxDone, egCancelled, egErr, servePc,
                   serveErr, watchPc, watchRet, shutdownErr, inShutdown, elapsed, conns,
                   wCtxDone, wRet, ticksAfterPub>>
    /\ UNCHANGED notRun

\* time.NewTicker(time.Millisecond * 100): a period has passed, a tick is sent on t.C
TickerFire ==
    /\ wPc = "polling"
    /\ ~ tickReady
    /\ tickReady' = TRUE
    /\ UNCHANGED <<slot, lstate, runPc, runResult, ctxDone, egCancelled, egErr, servePc,
                   serveErr, watchPc, watchRet, shutdownErr, inShutdown, elapsed, conns,
                   wPc, wCtxDone, wRet, ticksAfterPub, wLateCall>>
    /\ UNCHANGED notRun

\* the context passed to WaitForAddress is cancelled
WCtxCancel ==
    /\ ~ wCtxDone
    /\ wCtxDone' = TRUE
    /\ UNCHANGED <<slot, lstate, runPc, runResult, ctxDone, egCancelled, egErr, servePc,
                   serveErr, watchPc, watchRet, shutdownErr, inShutdown, elapsed, conns,
                   wPc, wRet, ticksAfterPub, tickReady, wLateCall>>
    /\ UNCHANGED notRun

\* a poll that takes whatever Load returned for a listener
Loaded_Any(raw) == TRUE

\* raw := s.listener.Load(); if raw != nil { l, ok := raw.(net.Listener); if ok {
Loaded(raw) == raw # NoListener

\* case <-t.C: the slot is loaded; a listener found there gives the result
WaitTick ==
    /\ wPc = "polling"
    /\ tickReady
    /\ tickReady' = FALSE
    /\ IF Loaded(slot)
          THEN /\ wRet' = [addr |-> slot, err |-> "nil"]
               /\ wPc' = "returned"
          ELSE UNCHANGED <<wRet, wPc>>
    /\ ticksAfterPub' = IF slot # NoListener THEN ticksAfterPub + 1 ELSE ticksAfterPub
    /\ UNCHANGED <<slot, lstate, runPc, runResult, ctxDone, egCancelled, egErr, servePc,
                   serveErr, watchPc, watchRet, shutdownErr, inShutdown, elapsed, conns,
                   wCtxDone, wLateCall>>
    /\ UNCHANGED notRun

\* a select without the ctx.Done() case
CtxCaseReady_Never == FALSE

\* case <-ctx.Done() can be taken
CtxCaseReady == wCtxDone

\* case <-ctx.Done(): return nil, ctx.Err()   (the deferred t.Stop() runs)
WaitCancelled ==
    /\ wPc = "polling"
    /\ CtxCaseReady
    /\ wRet' = [addr |-> NoListener, err |-> "ctxErr"]
    /\ wPc' = "returned"
    /\ UNCHANGED <<slot, lstate, runPc, runResult, ctxDone, egCancelled, egErr, servePc,
                   serveErr, watchPc, watchRet, shutdownErr, inShutdown, elapsed, conns,
                   wCtxDone, ticksAfterPub, tickReady, wLateCall>>
    /\ UNCHANGED notRun

NextRun ==
    \/ CtxCancel
    \/ RunListenFail
    \/ \E p \in Ports : RunListen(p)
    \/ ServeStart
    \/ \E c \in Conns : ServeAccept(c)
    \/ ServeAcceptError
    \/ ServeClosed
    \/ \E c \in Conns : ConnFinish(c)
    \/ WatchWake
    \/ GraceTick
    \/ ShutdownDone
    \/ ShutdownTimeout
    \/ RunReturn
    \/ WaitCall
    \/ TickerFire
    \/ WCtxCancel
    \/ WaitTick
    \/ WaitCancelled

(***************************************************************************)
(* httpserver: New and its options, Handle, RegisterService.               *)
(***************************************************************************)
Networks  == {"tcp", "unix", "udp", "unixgram", ""}
Addresses == {"", ":8080"}

\* WithServerAddress(network, address) and WithConfig(Config{Address: address})
Options == [kind : {"addr"}, network : Networks, address : Addresses]
              \cup [kind : {"config"}, address : Addresses]

OptionLists == UNION {[1..n -> Options] : n \in 0..MaxOpts}

\* cfg := serverConfig{network: "tcp", address: "127.0.0.1:0"}
DefaultConfig == [network |-> "tcp", address |-> "127.0.0.1:0"]

\* an option that assigns the fields before it validates them
WithServerAddress_AssignFirst(network, address, c) ==
    LET assigned == [network |-> network, address |-> address]
    IN  IF network \in {"udp", "unixgram"}
           THEN [cfg |-> assigned, err |-> "unsupported network"]
        ELSE IF network = ""
           THEN [cfg |-> assigned, err |-> "network must not be empty"]
        ELSE IF address = ""
           THEN [cfg |-> assigned, err |-> "address must not be empty"]
        ELSE [cfg |-> assigned, err |-> "nil"]

\* the option WithServerAddress(network, address) applied to c
WithServerAddress(network, address, c) ==
    IF network \in {"udp", "unixgram"}
       THEN [cfg |-> c, err |-> "unsupported network"]
    ELSE IF network = ""
       THEN [cfg |-> c, err |-> "network must not be empty"]
    ELSE IF address = ""
       THEN [cfg |-> c, err |-> "address must not be empty"]
    ELSE [cfg |-> [network |-> network, address |-> address], err |-> "nil"]

\* the option WithConfig(Config{Address: address}) applied to c:
\* serverOptions{WithServerAddress("tcp", address)}.apply(c)
WithConfig(address, c) == WithServerAddress("tcp", address, c)

\* o.apply(&cfg)
OptionApply(o, c) ==
    IF o.kind = "config"
       THEN WithConfig(o.address, c)
       ELSE WithServerAddress(o.network, o.address, c)

\* for _, o := range options { if err := o.apply(&cfg); err != nil { return } }
\* from position i on; at is the position of the option that failed
RECURSIVE ApplyFrom(_, _, _)
ApplyFrom(os, c, i) ==
    IF i > Len(os)
       THEN [cfg |-> c, err |-> "nil", at |-> 0]
       ELSE LET r == OptionApply(os[i], c)
            IN  IF r.err # "nil"
                   THEN [cfg |-> r.cfg, err |-> r.err, at |-> i]
                   ELSE ApplyFrom(os, r.cfg, i + 1)

\* the services and handlers of the program, and the patterns they are served at
OwnReflection == "reflection"       \* s.reflection, created by New
Services      == {OwnReflection, "appReflection", "todo"}
UserHandlers  == {"appReflection", "todo", "plain"}
ReflectionPrefix == "reflection.PathPrefix"
TodoPrefix       == "todo.PathPrefix"
Patterns      == {ReflectionPrefix, TodoPrefix, "/healthz"}

\* svc.PathPrefix(): every reflection server reports the same prefix
PathPrefix(svc) == IF svc = "todo" THEN TodoPrefix ELSE ReflectionPrefix

\* http.ServeMux.Handle: panics when the pattern is already registered
MuxHandle(rt, pattern, h) ==
    IF pattern \in DOMAIN rt
       THEN [routes |-> rt, panic |-> TRUE]
       ELSE [routes |-> MapStore(rt, pattern, h), panic |-> FALSE]

\* a registration that tells the reflection service nothing
ReflectionRegister_Forget(known, svc) == known

\* s.reflection.RegisterService(svc)
ReflectionRegister(known, svc) == known \cup {svc}

\* s.mux.Handle(svc.PathPrefix(), svc); s.reflection.RegisterService(svc)
ServiceRegistered(rt, known, svc) ==
    LET m == MuxHandle(rt, PathPrefix(svc), svc)
    IN  IF m.panic
           THEN [routes |-> rt, known |-> known, panic |-> TRUE]
           ELSE [routes |-> m.routes, known |-> ReflectionRegister(known, svc),
                 panic |-> FALSE]

SetupInit ==
    /\ newCalled = FALSE
    /\ newOpts = << >>
    /\ newRet = [server |-> FALSE, err |-> "nil"]
    /\ cfg = DefaultConfig
    /\ failedAt = 0
    /\ routes = << >>
    /\ reflKnown = {}
    /\ muxPanic = FALSE
    /\ setupCalls = << >>
    /\ listenCalls = << >>

\* New(options...): apply the options to the default configuration; on an
\* error return no server; otherwise build the server and register its
\* reflection service (the two AddMiddleware calls are in ChainInit)
New(os) ==
    /\ ~ newCalled
    /\ newCalled' = TRUE
    /\ newOpts' = os
    /\ LET r == ApplyFrom(os, DefaultConfig, 1)
           reg == ServiceRegistered(<< >>, {}, OwnReflection)
       IN  /\ cfg' = r.cfg
           /\ failedAt' = r.at
           /\ IF r.err # "nil"
                 THEN /\ newRet' = [server |-> FALSE, err |-> r.err]
                      /\ UNCHANGED <<routes, reflKnown, muxPanic>>
                 ELSE /\ newRet' = [server |-> TRUE, err |-> "nil"]
                      /\ routes' = reg.routes
                      /\ reflKnown' = reg.known
                      /\ muxPanic' = reg.panic
    /\ UNCHANGED <<setupCalls, listenCalls>>
    /\ UNCHANGED notSetup

\* the server can be set up: New returned it, no call has panicked, Run has
\* not started
CanSetup ==
    /\ newRet.server
    /\ ~ muxPanic
    /\ listenCalls = << >>
    /\ Len(setupCalls) < MaxSetupCalls

\* s.Handle(pattern, handler): s.mux.Handle(pattern, handler)
Handle(pattern, h) ==
    /\ CanSetup
    /\ LET m == MuxHandle(routes, pattern, h)
       IN  /\ routes' = m.routes
           /\ muxPanic' = m.panic
    /\ setupCalls' = Append(setupCalls,
                            [op |-> "Handle", pattern |-> pattern, handler |-> h])
    /\ UNCHANGED <<newCalled, newOpts, newRet, cfg, failedAt, reflKnown, listenCalls>>
    /\ UNCHANGED notSetup

\* s.RegisterService(svc)
RegisterService(svc) ==
    /\ CanSetup
    /\ LET reg == ServiceRegistered(routes, reflKnown, svc)
       IN  /\ routes' = reg.routes
           /\ reflKnown' = reg.known
           /\ muxPanic' = reg.panic
    /\ setupCalls' = Append(setupCalls,
                            [op |-> "RegisterService", pattern |-> PathPrefix(svc),
                             handler |-> svc])
    /\ UNCHANGED <<newCalled, newOpts, newRet, cfg, failedAt, listenCalls>>
    /\ UNCHANGED notSetup

\* s.Run(ctx) on the server New returned: net.Listen(s.config.network,
\* s.config.address); what Run does next is NextRun
RunBinds ==
    /\ newRet.server
    /\ ~ muxPanic
    /\ listenCalls = << >>
    /\ listenCalls' = <<[network |-> cfg.network, address |-> cfg.address]>>
    /\ UNCHANGED <<newCalled, newOpts, newRet, cfg, failedAt, routes, reflKnown, muxPanic,
                   setupCalls>>
    /\ UNCHANGED notSetup

NextSetup ==
    \/ \E os \in OptionLists : New(os)
    \/ \E pattern \in Patterns, h \in UserHandlers : Handle(pattern, h)
    \/ \E svc \in UserHandlers \cap Services : RegisterService(svc)
    \/ RunBinds

(***************************************************************************)
(* todo.Server: CreateTask, ListTasks, GetTask over table tasks.  A row is  *)
(* (id, title, description); column created holds the time of the insert   *)
(* and no operation reads it back into a decision.                          *)
(***************************************************************************)
Titles       == {"testing", "other"}
Descriptions == {"", "d"}
Requests     == [title : Titles, description : Descriptions]
TaskIds      == 1..(MaxTasks + 1)          \* the ids GetTask is asked for
NoTask       == [id |-> 0, title |-> "", description |-> ""]

\* the id the database gives the next row of tasks: one more than the largest
NextRowId(table) ==
    IF table = {} THEN 1
    ELSE (CHOOSE r \in table : \A q \in table : q.id <= r.id).id + 1

\* insert into tasks (created, title, description) values (?, ?, ?)
DbInsert(table, req) ==
    LET id == NextRowId(table)
    IN  [table |-> table \cup {[id |-> id, title |-> req.title,
                                description |-> req.description]},
         id |-> id]

\* select id, created, title, description from tasks order by id
RECURSIVE SelectOrderById(_)
SelectOrderById(table) ==
    IF table = {} THEN << >>
    ELSE LET m == CHOOSE r \in table : \A q \in table : r.id <= q.id
         IN  <<m>> \o SelectOrderById(table \ {m})

\* select id, created, title, description from tasks where id = ?
SelectById(table, id) == {r \in table : r.id = id}

\* a response that leaves the id field at its zero value
CreatedTask_NoId(id, req) ==
    [id |-> 0, title |-> req.title, description |-> req.description]

\* CreateTask's pb.Task{Id: uint64(id), Title: req.Title, Description: req.Description}
CreatedTask(id, req) ==
    [id |-> id, title |-> req.title, description |-> req.description]

\* rows.Scan followed by pb.Task{Id: id, Title: title.String, ...}
ScannedTask(r) == [id |-> r.id, title |-> r.title, description |-> r.description]

TodoInit ==
    /\ tasks = {}
    /\ created = << >>
    /\ createRet = [task |-> NoTask, err |-> "none"]
    /\ listRet = [n |-> 0, tasks |-> << >>, err |-> "none"]
    /\ getRet = [n |-> 0, id |-> 0, task |-> NoTask, err |-> "none"]

\* CreateTask(ctx, req); ok: s.stmtCache.ExecContext returned no error
CreateTask(req, ok) ==
    /\ Cardinality(tasks) < MaxTasks
    /\ IF ok
          THEN LET ins == DbInsert(tasks, req)
                   t   == CreatedTask(ins.id, req)
               IN  /\ tasks' = ins.table
                   /\ createRet' = [task |-> t, err |-> "nil"]
                   /\ created' = Append(created, [req |-> req, task |-> t])
          ELSE /\ createRet' = [task |-> NoTask, err |-> "internal"]
               /\ UNCHANGED <<tasks, created>>
    /\ UNCHANGED <<listRet, getRet>>
    /\ UNCHANGED notTodo

\* ListTasks(ctx, req); ok: the query and every rows.Scan returned no error
ListTasks(ok) ==
    /\ listRet' = IF ok
                     THEN LET rows == SelectOrderById(tasks)
                          IN  [n |-> Len(created),
                               tasks |-> [i \in 1..Len(rows) |-> ScannedTask(rows[i])],
                               err |-> "nil"]
                     ELSE [n |-> Len(created), tasks |-> << >>, err |-> "internal"]
    /\ UNCHANGED <<tasks, created, createRet, getRet>>
    /\ UNCHANGED notTodo

\* GetTask(ctx, req); ok: the query and rows.Scan returned no error
GetTask(id, ok) ==
    /\ getRet' = IF ~ ok
                    THEN [n |-> Len(created), id |-> id, task |-> NoTask, err |-> "internal"]
                 ELSE IF SelectById(tasks, id) = {}
                    THEN [n |-> Len(created), id |-> id, task |-> NoTask, err |-> "not_found"]
                 ELSE [n |-> Len(created), id |-> id,
                       task |-> ScannedTask(CHOOSE r \in SelectById(tasks, id) : TRUE),
                       err |-> "nil"]
    /\ UNCHANGED <<tasks, created, createRet, listRet>>
    /\ UNCHANGED notTodo

NextTodo ==
    \/ \E req \in Requests, ok \in BOOLEAN : CreateTask(req, ok)
    \/ \E ok \in BOOLEAN : ListTasks(ok)
    \/ \E id \in TaskIds, ok \in BOOLEAN : GetTask(id, ok)

Init == CacheInit /\ ChainInit /\ RunInit /\ SetupInit /\ TodoInit

Next ==
    \/ \E t \in Callers, k \in Keys : PrepRLock(t, k)
    \/ \E t \in Callers : PrepLookup(t)
    \/ \E t \in Callers : PrepLock(t)
    \/ \E t \in Callers : PrepCreate(t)
    \/ \E t \in Callers : StmtUse(t)
    \/ CloseLock
    \/ CloseIter
    \/ CloseUnlock

\* the statement cache
Spec == Init /\ [][Next]_vars

\* the middleware chain of the HTTP server
SpecChain == Init /\ [][NextChain]_vars

\* Run and WaitForAddress
SpecRun == Init /\ [][NextRun]_vars

\* Run and WaitForAddress with the scheduling the runtime provides: a task
\* that can take its next step takes it, timers fire, time passes. Nothing is
\* assumed of the environment: the signals may never fire, a request may
\* never complete, WaitForAddress may never be called.
FairRun ==
    /\ WF_vars(ServeStart)
    /\ WF_vars(ServeClosed)
    /\ WF_vars(WatchWake)
    /\ WF_vars(GraceTick)
    /\ WF_vars(ShutdownDone)
    /\ WF_vars(ShutdownTimeout)
    /\ WF_vars(RunReturn)
    /\ WF_vars(TickerFire)
    /\ WF_vars(WaitTick)
    /\ WF_vars(WaitCancelled)

FairSpecRun == SpecRun /\ FairRun

\* New and the setup of the routes
SpecSetup == Init /\ [][NextSetup]_vars

\* the todo service over its table
SpecTodo == Init /\ [][NextTodo]_vars

(***************************************************************************)
(* Properties of the statement cache.                                      *)
(***************************************************************************)

\* C1 (as claimed): callers racing on the same uncached key, with a preparer
\* that succeeds and no Close, invoke the preparer once for that key, and the
\* callers holding a statement for the same key hold the identical statement.
C1_Memoization ==
    /\ \A k \in Keys : (closeCalls = 0 /\ prepFail[k] = 0) => prepOk[k] <= 1
    /\ \A a, b \in Callers :
         (closeCalls = 0 /\ pc[a] = "use" /\ pc[b] = "use" /\ query[a] = query[b])
            => ret[a].stmt = ret[b].stmt

\* C2 (as claimed): before any Close, an entry of the map, once stored, is
\* never replaced, re-created or removed by a later step.
C2_EntryStable ==
    [][\A k \in Keys :
         (closeCalls = 0 /\ k \in DOMAIN statements)
            => (k \in DOMAIN statements' /\ statements'[k] = statements[k])]_vars

\* C3: a failing preparer call returns the error (and a nil statement) to its
\* caller and leaves the map unchanged; every entry of the map is a statement
\* the preparer created, and a lookup is served from the map only for a key
\* whose creation succeeded, so a call after a failure reaches the preparer.
C3_RetryOnFailure ==
    /\ [](\A k \in DOMAIN statements : statements[k] \in 1..nextStmt)
    /\ [][\A t \in Callers :
            /\ (pc[t] = "prepare" /\ prepFail'[query[t]] = prepFail[query[t]] + 1)
                  => /\ statements' = statements
                     /\ ret'[t] = [stmt |-> NilStmt, err |-> "err"]
            /\ (pc[t] = "rlocked" /\ pc'[t] = "use") => prepOk[query[t]] >= 1]_vars

\* C3 witness: every goroutine's creation for k has failed, nothing is cached
\* for k, and the preparer is being invoked for k once more (more invocations
\* than goroutines: one of them follows that goroutine's own failed call).
C3_Witness ==
    \E k \in Keys :
        /\ prepFail[k] >= NumCallers
        /\ prepOk[k] = 0
        /\ k \notin DOMAIN statements
        /\ \E t \in Callers : pc[t] = "prepare" /\ query[t] = k

\* the creation of a's key is in progress and b waits to create another key
CrossKeyWait(a, b) ==
    pc[a] = "prepare" /\ pc[b] = "wantLock" /\ query[a] # query[b]

\* C4 (as claimed): a caller waiting to create the entry of one key is never
\* held up by the creation in progress for another key.
C4_NoCrossKeyBlocking ==
    \A a, b \in Callers : CrossKeyWait(a, b) => ENABLED PrepLock(b)

\* C4 (amended): creations are serialised by the one exclusive lock: at most
\* one goroutine is inside a creation (or Close) at a time, it holds the lock
\* with no reader inside, and a caller waiting to create another key cannot
\* start while it does.
C4_CreationsSerialised ==
    /\ Cardinality({t \in Threads : pc[t] \in {"prepare", "closing"}}) <= 1
    /\ \A t \in Threads : pc[t] \in {"prepare", "closing"} => (lockW = t /\ lockR = {})
    /\ \A a, b \in Callers : CrossKeyWait(a, b) => ~ ENABLED PrepLock(b)

C4_Witness == \E a, b \in Callers : CrossKeyWait(a, b)

\* C5: no statement is closed twice; when Close has returned and nothing was
\* stored since, the map is empty and every statement that was cached when
\* Close took the lock has been closed exactly once; a second Close with no
\* store since the first finds nothing and closes nothing.
C5_IdempotentClose ==
    /\ \A s \in StmtIds : closeCount[s] <= 1
    /\ (pc[Closer] = "idle" /\ closeCalls >= 1 /\ storedSince = 0)
          => DOMAIN statements = {}
    /\ (pc[Closer] = "idle" /\ closeCalls >= 1)
          => \A s \in atLock : closeCount[s] = 1
    /\ (pc[Closer] = "closing" /\ closeCalls >= 2 /\ storedSince = 0)
          => (atLock = {} /\ closedInCall = 0)

\* C5 witness: the second Close has returned having closed nothing, after a
\* first Close that closed a statement.
C5_Witness ==
    /\ closeCalls = 2
    /\ pc[Closer] = "idle"
    /\ closedInCall = 0
    /\ \E s \in StmtIds : closeCount[s] = 1

(***************************************************************************)
(* Properties of the middleware chain.                                     *)
(***************************************************************************)
\* the place of event e in a request's trace
Pos(q, e) == CHOOSE i \in 1..Len(q) : q[i] = e

\* in r's trace, middleware a is around middleware b: a's pre-processing runs
\* before b's and b's post-processing runs before a's
Around(r, a, b) ==
    /\ Pos(reqTrace[r], <<"pre", a>>) < Pos(reqTrace[r], <<"pre", b>>)
    /\ Pos(reqTrace[r], <<"post", b>>) < Pos(reqTrace[r], <<"post", a>>)

\* every registered middleware has pre- and post-processed the request once
Traversed(r) ==
    /\ Len(reqTrace[r]) = 2 * Len(registered) + 1
    /\ \A i \in 1..Len(registered) :
         /\ InSeq(reqTrace[r], <<"pre", registered[i]>>)
         /\ InSeq(reqTrace[r], <<"post", registered[i]>>)

C7_StragglersTerminated ==
    shutdownErr = "deadline" => \A c \in Conns : conns[c] # "active"

\* C8: a Run whose serve task ended with ErrServerClosed returns nil; and once
\* the listener is bound and the cancellation signal has fired, both tasks
\* finish and Run returns.
C8_RunTerminates ==
    /\ []((runPc = "returned" /\ serveErr = "ErrServerClosed") => runResult = "nil")
    /\ ((slot # NoListener /\ ctxDone)
          ~> (runPc = "returned" /\ servePc = "done" /\ watchPc = "done"))

\* C8 witness: the signal fired, Shutdown made Serve return ErrServerClosed,
\* and Run has returned nil.
C8_Witness ==
    /\ runPc = "returned"
    /\ ctxDone
    /\ serveErr = "ErrServerClosed"
    /\ runResult = "nil"

\* C9: when Serve fails with an error that is not ErrServerClosed the group's
\* context is cancelled (which wakes the watcher), the watcher returns nil
\* whatever Shutdown returned, Run returns exactly Serve's error, and Run does
\* return.
C9_ServeFailurePropagates ==
    /\ [](serveErr = "other" => (egCancelled /\ GroupCtxDone))
    /\ [](watchPc = "done" => watchRet = "nil")
    /\ []((runPc = "returned" /\ serveErr = "other") => runResult = "other")
    /\ (serveErr = "other" ~> runPc = "returned")

\* C9 witness: with the external signal never fired, Serve failed, Shutdown
\* itself failed with the deadline error, and Run returned Serve's error.
C9_Witness ==
    /\ runPc = "returned"
    /\ ~ ctxDone
    /\ serveErr = "other"
    /\ shutdownErr = "deadline"
    /\ runResult = "other"

\* C10: WaitForAddress returns a nil error only with the address of the
\* listener that Run has stored, returns the context's error only if its
\* context is cancelled, returns at the first tick it handles once the
\* listener is published, and, once the listener is published, does return.
C10_AddressDiscovery ==
    /\ []((wPc = "returned" /\ wRet.err = "nil")
            => (slot # NoListener /\ lstate # "none" /\ wRet.addr = slot))
    /\ []((wPc = "returned" /\ wRet.err # "nil") => wCtxDone)
    /\ [](wPc = "polling" => ticksAfterPub = 0)
    /\ ((wPc = "polling" /\ slot # NoListener) ~> wPc = "returned")

\* C10 witness: WaitForAddress, its context not cancelled, has returned the
\* bound port with a nil error, at the first tick it handled after Run
\* published it.
C10_Witness ==
    /\ wPc = "returned"
    /\ ~ wCtxDone
    /\ wRet.err = "nil"
    /\ wRet.addr \in Ports
    /\ wRet.addr = slot
    /\ ticksAfterPub = 1

\* C11 (as claimed): a WaitForAddress called with its context already
\* cancelled returns a nil address and the context's error.
C11_LateCallGetsCtxErr ==
    (wPc = "returned" /\ wLateCall) => wRet = [addr |-> NoListener, err |-> "ctxErr"]

\* C11 (amended): a WaitForAddress that returns while no listener is
\* published returns a nil address and the error of its cancelled context; the
\* context's error never comes with an address; and once its context is
\* cancelled WaitForAddress does return, whether or not Run was called.
C11_CancelNoHang ==
    /\ []((wPc = "returned" /\ slot = NoListener)
            => (wCtxDone /\ wRet = [addr |-> NoListener, err |-> "ctxErr"]))
    /\ []((wPc = "returned" /\ wRet.err = "ctxErr") => wRet.addr = NoListener)
    /\ ((wPc = "polling" /\ wCtxDone) ~> wPc = "returned")

\* C11 witness: Run was never called; WaitForAddress, called with a cancelled
\* context, has returned the context's error.
C11_Witness ==
    /\ runPc = "new"
    /\ wLateCall
    /\ wPc = "returned"
    /\ wRet = [addr |-> NoListener, err |-> "ctxErr"]

\* C13 (as claimed): in every state the listener slot is empty or holds a
\* live listener, bound to one of the ports the configured address allows, in
\* particular never a closed one.
C13_SlotEmptyOrLive ==
    slot # NoListener => (slot \in Ports /\ lstate = "open")

\* C16 (as claimed): at every moment every statement the preparer created
\* and nobody closed is a value of the statements map.
C16_NoLeakedStatement ==
    \A s \in 1..nextStmt : closeCount[s] = 0 => s \in MapValues(statements)

\* C17 (as claimed): whenever QueryContext / ExecContext performs the query
\* on the statement PrepareContext gave it, Close has not closed that statement.
C17_NoUseAfterClose ==
    [][\A t \in Callers :
          (pc[t] = "use" /\ pc'[t] = "idle") => closeCount[ret[t].stmt] = 0]_vars

(***************************************************************************)
(* Properties of New and of the setup of the routes.                       *)
(***************************************************************************)

\* an option the construction must reject: WithServerAddress with an empty
\* or connectionless network or an empty address, WithConfig with an empty
\* Address
InvalidOption(o) ==
    \/ o.address = ""
    \/ o.kind = "addr" /\ o.network \in {"", "udp", "unixgram"}

\* C12: New called with options of which one is invalid returns an error and
\* no server; the option that failed is an invalid one and the configuration
\* is what the options before it made of the default; no listener is ever
\* bound.
C12_InvalidConfigRejected ==
    (newCalled /\ \E i \in 1..Len(newOpts) : InvalidOption(newOpts[i]))
        => /\ ~ newRet.server
           /\ newRet.err # "nil"
           /\ failedAt \in 1..Len(newOpts)
           /\ InvalidOption(newOpts[failedAt])
           /\ \A i \in 1..(failedAt - 1) : ~ InvalidOption(newOpts[i])
           /\ cfg = ApplyFrom(SubSeq(newOpts, 1, failedAt - 1), DefaultConfig, 1).cfg
           /\ routes = << >>
           /\ listenCalls = << >>

\* C12 witness: New was given a valid option that changes the configuration
\* and then WithConfig with an empty Address; it failed at the second option
\* and the configuration is the one the first option set.
C12_Witness ==
    /\ newCalled
    /\ Len(newOpts) = 2
    /\ newOpts[1] = [kind |-> "addr", network |-> "unix", address |-> ":8080"]
    /\ newOpts[2] = [kind |-> "config", address |-> ""]
    /\ failedAt = 2
    /\ ~ newRet.server
    /\ newRet.err = "address must not be empty"
    /\ cfg = [network |-> "unix", address |-> ":8080"]

\* the handlers of the route table
RoutedHandlers == {routes[p] : p \in DOMAIN routes}

\* the setup calls that returned (a call that panicked is the last one)
ReturnedCalls ==
    {i \in 1..Len(setupCalls) : ~ (muxPanic /\ i = Len(setupCalls))}

\* C14 (as claimed): after any sequence of Handle and RegisterService calls
\* every service of the route table is known to the server's reflection
\* service.
C14_RoutedServicesKnown ==
    \A p \in DOMAIN routes : routes[p] \in Services => routes[p] \in reflKnown

\* C14 (amended): every service registered with RegisterService, the built-in
\* reflection service included, is in the route table at its path prefix and
\* known to the reflection service; the reflection service knows no service
\* that is not in the route table; a handler given to Handle is in the route
\* table at its pattern.
C14_RegisterServiceInformsReflection ==
    /\ newRet.server => /\ ReflectionPrefix \in DOMAIN routes
                        /\ routes[ReflectionPrefix] = OwnReflection
                        /\ OwnReflection \in reflKnown
    /\ \A i \in ReturnedCalls :
          /\ setupCalls[i].pattern \in DOMAIN routes
          /\ routes[setupCalls[i].pattern] = setupCalls[i].handler
          /\ setupCalls[i].op = "RegisterService" => setupCalls[i].handler \in reflKnown
    /\ reflKnown \subseteq RoutedHandlers

\* C14 witness: the todo service was registered with RegisterService and is
\* known to the reflection service; another service was added with Handle
\* and is routed without the reflection service knowing it.
C14_Witness ==
    /\ ~ muxPanic
    /\ Len(setupCalls) = 2
    /\ setupCalls[1] = [op |-> "RegisterService", pattern |-> TodoPrefix, handler |-> "todo"]
    /\ setupCalls[2] = [op |-> "Handle", pattern |-> "/healthz", handler |-> "appReflection"]
    /\ "todo" \in reflKnown
    /\ "appReflection" \in RoutedHandlers \ reflKnown

\* the calls app Config.Run makes on the server New(WithConfig(c)) built
AppSetupCalls ==
    <<[op |-> "Handle", pattern |-> TodoPrefix, handler |-> "todo"],
      [op |-> "Handle", pattern |-> ReflectionPrefix, handler |-> "appReflection"]>>

\* how many times a pattern was given to s.mux.Handle
Registrations(p) ==
    (IF newRet.server /\ p = ReflectionPrefix THEN 1 ELSE 0)
    + Cardinality({i \in 1..Len(setupCalls) : setupCalls[i].pattern = p})

\* C18 (as claimed): after New and the Handle calls of app Config.Run no
\* pattern has been registered on the route table more than once, and the
\* route table has not panicked.
C18_NoDuplicateRegistration ==
    (/\ newRet.server
     /\ Len(newOpts) = 1 /\ newOpts[1].kind = "config"
     /\ setupCalls = AppSetupCalls)
        => /\ ~ muxPanic
           /\ \A p \in Patterns : Registrations(p) <= 1

(***************************************************************************)
(* Properties of the todo service.                                         *)
(***************************************************************************)

====
